---- MODULE Spec2Model ----
(***************************************************************************)
(* Model of src/minesweeper.py: the Minesweeper ground truth, the Sentence *)
(* value object and the MinesweeperAI knowledge-base engine.               *)
(*                                                                         *)
(* A cell is a pair <<row, col>>.  A sentence is a record                  *)
(* [cells |-> set of cells, count |-> integer].  knowledge is the list of  *)
(* sentences in insertion order (duplicates are kept, as in the code).     *)
(*                                                                         *)
(* The handler add_knowledge is split at the head of its while loop: the   *)
(* action add_knowledge(cell, count) is the code up to the loop,           *)
(* InferencePass is one iteration of the loop and Finish is the code after *)
(* the loop; pc is the position in the handler.  Reveal is the driver      *)
(* calling add_knowledge for a cell that is no mine with its true count.   *)
(*                                                                         *)
(* Spec is the engine under valid observations, ScenarioSpec the run of    *)
(* test_minesweeper_ai, MarkSpec the engine with mark_mine and mark_safe   *)
(* also called from outside, SentenceSpec one Sentence and its queries,    *)
(* OrderSpec add_knowledge with every iteration order it can meet.         *)
(***************************************************************************)
EXTENDS Integers, Sequences, FiniteSets, TLC

VARIABLES height, width, board, moves_made, mines, safes, knowledge,
          pc, op, result, obs, revealed, calls

vars == <<height, width, board, moves_made, mines, safes, knowledge,
          pc, op, result, obs, revealed, calls>>

\* ---------------------------------------------------------------- bounds
BoardHeight == 2
BoardWidth == 3
MaxMines == 2
MaxCalls == 4

ScenarioCalls == 2

MarkCalls == 3

MarkPasses == 6

OrderCalls == 3

\* ------------------------------------------------------------- constants
None == <<>>

\* test_minesweeper_ai: the board, the mine it announces, the sentence it
\* plants and the observation it reports
ScenarioHeight == 4

ScenarioWidth == 4

known_mine == <<0, 0>>

ScenarioSentence == [cells |-> {<<1, 2>>, <<0, 3>>, <<1, 3>>}, count |-> 1]

ScenarioCell == <<1, 1>>

ScenarioCount == 1

\* the locals of the running (or last) add_knowledge call: its arguments, the
\* set `neighbors`, the working `count` after the scan, and every sentence that
\* was put into `newSentences` during the call, and the number of iterations
\* of the while loop so far
NoObs ==
    [cell |-> None, count |-> 0, neighbors |-> {}, new_count |-> 0,
     derived |-> {}, passes |-> 0]

\* ----------------------------------------------------------- Minesweeper
AllCells(h, w) == (0 .. h - 1) \X (0 .. w - 1)

is_mine(b, cell) == cell \in b

\* the 3x3 window around cell in the order the two range() loops visit it
Window(cell) ==
    [k \in 1 .. 9 |-> <<cell[1] - 1 + ((k - 1) \div 3), cell[2] - 1 + ((k - 1) % 3)>>]

nearby_mines(b, h, w, cell) ==
    Cardinality({k \in 1 .. 9 :
        /\ Window(cell)[k] # cell
        /\ Window(cell)[k][1] >= 0 /\ Window(cell)[k][1] < h
        /\ Window(cell)[k][2] >= 0 /\ Window(cell)[k][2] < w
        /\ Window(cell)[k] \in b})

\* -------------------------------------------------------------- Sentence
Sentence(cells, count) == [cells |-> cells, count |-> count]

\* variant: every cell is reported once the count reaches the number of cells
known_mines_AtLeast(s) == IF Cardinality(s.cells) <= s.count THEN s.cells ELSE {}

known_mines(s) == IF Cardinality(s.cells) = s.count THEN s.cells ELSE {}

known_safes(s) == IF s.count = 0 THEN s.cells ELSE {}

\* variant: the cell is removed but the count is not decremented
Sentence_mark_mine_KeepCount(s, cell) ==
    IF cell \in s.cells
    THEN [cells |-> s.cells \ {cell}, count |-> s.count]
    ELSE s

\* variant: the membership test is missing, the count drops at every call
Sentence_mark_mine_Unguarded(s, cell) ==
    [cells |-> s.cells \ {cell}, count |-> s.count - 1]

Sentence_mark_mine(s, cell) ==
    IF cell \in s.cells
    THEN [cells |-> s.cells \ {cell}, count |-> s.count - 1]
    ELSE s

Sentence_mark_safe(s, cell) ==
    IF cell \in s.cells
    THEN [cells |-> s.cells \ {cell}, count |-> s.count]
    ELSE s

\* --------------------------------------------------------- MinesweeperAI
\* The part of the engine the inference touches, as one value.
Engine(m, s, k) == [mines |-> m, safes |-> s, knowledge |-> k]

\* variant: the cell is recorded but the sentences are left as they are
mark_mine_KeepSentences(st, cell) ==
    [mines |-> st.mines \cup {cell},
     safes |-> st.safes,
     knowledge |-> st.knowledge]

mark_mine(st, cell) ==
    [mines |-> st.mines \cup {cell},
     safes |-> st.safes,
     knowledge |-> [i \in DOMAIN st.knowledge |->
                        Sentence_mark_mine(st.knowledge[i], cell)]]

\* variant: the cell is recorded but the sentences are left as they are
mark_safe_KeepSentences(st, cell) ==
    [mines |-> st.mines,
     safes |-> st.safes \cup {cell},
     knowledge |-> st.knowledge]

mark_safe(st, cell) ==
    [mines |-> st.mines,
     safes |-> st.safes \cup {cell},
     knowledge |-> [i \in DOMAIN st.knowledge |->
                        Sentence_mark_safe(st.knowledge[i], cell)]]

\* iteration over a Python set: some order of its elements
RECURSIVE SetToSeq(_)
SetToSeq(S) ==
    IF S = {} THEN <<>>
    ELSE LET c == CHOOSE x \in S : TRUE
         IN <<c>> \o SetToSeq(S \ {c})

RECURSIVE MarkMines(_, _)
MarkMines(st, list) ==
    IF list = <<>> THEN st
    ELSE MarkMines(mark_mine(st, Head(list)), Tail(list))

RECURSIVE MarkSafes(_, _)
MarkSafes(st, list) ==
    IF list = <<>> THEN st
    ELSE MarkSafes(mark_safe(st, Head(list)), Tail(list))

\* the list `mines` built by the scan of mark_additional_cells
RECURSIVE AdditionalMines(_, _)
AdditionalMines(st, i) ==
    IF i > Len(st.knowledge) THEN <<>>
    ELSE LET s == st.knowledge[i]
         IN (IF known_mines(s) # {}
             THEN SetToSeq(known_mines(s) \ st.mines)
             ELSE <<>>) \o AdditionalMines(st, i + 1)

\* the list `safes` built by the scan of mark_additional_cells
RECURSIVE AdditionalSafes(_, _)
AdditionalSafes(st, i) ==
    IF i > Len(st.knowledge) THEN <<>>
    ELSE LET s == st.knowledge[i]
         IN (IF known_mines(s) # {} THEN <<>>
             ELSE IF known_safes(s) # {}
             THEN SetToSeq(known_safes(s) \ st.safes)
             ELSE <<>>) \o AdditionalSafes(st, i + 1)

mark_additional_cells(st) ==
    MarkSafes(MarkMines(st, AdditionalMines(st, 1)), AdditionalSafes(st, 1))

\* variant: cells already known safe are not left out of the new sentence
RECURSIVE NeighborScan_KeepSafes(_, _, _, _, _, _)
NeighborScan_KeepSafes(st, h, w, cell, acc, k) ==
    IF k > 9 THEN acc
    ELSE LET neighbor == Window(cell)[k]
             row == neighbor[1]
             col == neighbor[2]
             next ==
                 IF neighbor \in st.mines
                 THEN [neighbors |-> acc.neighbors, count |-> acc.count - 1]
                 ELSE IF \/ neighbor = cell
                         \/ row >= h
                         \/ row < 0
                         \/ col < 0
                         \/ col >= w
                 THEN acc
                 ELSE [neighbors |-> acc.neighbors \cup {neighbor}, count |-> acc.count]
         IN NeighborScan_KeepSafes(st, h, w, cell, next, k + 1)

\* variant: a known mine in the window is skipped without decrementing count
RECURSIVE NeighborScan_NoDecrement(_, _, _, _, _, _)
NeighborScan_NoDecrement(st, h, w, cell, acc, k) ==
    IF k > 9 THEN acc
    ELSE LET neighbor == Window(cell)[k]
             row == neighbor[1]
             col == neighbor[2]
             next ==
                 IF \/ neighbor \in st.mines
                    \/ neighbor \in st.safes
                    \/ neighbor = cell
                    \/ row >= h
                    \/ row < 0
                    \/ col < 0
                    \/ col >= w
                 THEN acc
                 ELSE [neighbors |-> acc.neighbors \cup {neighbor}, count |-> acc.count]
         IN NeighborScan_NoDecrement(st, h, w, cell, next, k + 1)

\* lines 235-253: the scan of the 3x3 window; acc is [neighbors, count]
RECURSIVE NeighborScan(_, _, _, _, _, _)
NeighborScan(st, h, w, cell, acc, k) ==
    IF k > 9 THEN acc
    ELSE LET neighbor == Window(cell)[k]
             row == neighbor[1]
             col == neighbor[2]
             next ==
                 IF neighbor \in st.mines
                 THEN [neighbors |-> acc.neighbors, count |-> acc.count - 1]
                 ELSE IF \/ neighbor \in st.safes
                         \/ neighbor = cell
                         \/ row >= h
                         \/ row < 0
                         \/ col < 0
                         \/ col >= w
                 THEN acc
                 ELSE [neighbors |-> acc.neighbors \cup {neighbor}, count |-> acc.count]
         IN NeighborScan(st, h, w, cell, next, k + 1)

\* lines 232-253: mark the cell safe, then scan its window
NewSentence(st, h, w, cell, count) ==
    NeighborScan(mark_safe(st, cell), h, w, cell,
                 [neighbors |-> {}, count |-> count], 1)

\* lines 231-261: the cell marked safe and the new sentence appended
WithNewSentence(st, h, w, cell, count) ==
    LET st1 == mark_safe(st, cell)
        acc == NewSentence(st, h, w, cell, count)
    IN IF Cardinality(acc.neighbors) > 0
       THEN [st1 EXCEPT !.knowledge =
                Append(@, Sentence(acc.neighbors, acc.count))]
       ELSE st1

\* lines 231-263: add_knowledge up to the head of the while loop
Integrate(st, h, w, cell, count) ==
    mark_additional_cells(WithNewSentence(st, h, w, cell, count))

\* `newSentence not in self.knowledge`: list membership by Sentence.__eq__
InKnowledge(s, K) == \E i \in DOMAIN K : K[i].cells = s.cells /\ K[i].count = s.count

\* lines 272-276: the union of the direct conclusions of all sentences
knownSafes(K) == UNION {known_safes(K[i]) : i \in DOMAIN K}

knownMines(K) == UNION {known_mines(K[i]) : i \in DOMAIN K}

\* lines 278-281
RECURSIVE MarkNewSafes(_, _)
MarkNewSafes(st, list) ==
    IF list = <<>> THEN st
    ELSE MarkNewSafes(IF Head(list) \notin st.safes
                      THEN mark_safe(st, Head(list)) ELSE st, Tail(list))

\* lines 283-286
RECURSIVE MarkNewMines(_, _)
MarkNewMines(st, list) ==
    IF list = <<>> THEN st
    ELSE MarkNewMines(IF Head(list) \notin st.mines
                      THEN mark_mine(st, Head(list)) ELSE st, Tail(list))

\* lines 269-286: part (a) of one pass
PassMark(st) ==
    MarkNewMines(MarkNewSafes(st, SetToSeq(knownSafes(st.knowledge))),
                 SetToSeq(knownMines(st.knowledge)))

\* lines 278-286: whether part (a) set newInferences
PassMarked(st) ==
    \/ \E c \in knownSafes(st.knowledge) : c \notin st.safes
    \/ \E c \in knownMines(st.knowledge) :
          c \notin MarkNewSafes(st, SetToSeq(knownSafes(st.knowledge))).mines

\* variant: the derived sentence keeps the count of the larger sentence
RECURSIVE InferFrom_KeepCount(_, _, _)
InferFrom_KeepCount(K, i, j) ==
    IF j > Len(K) THEN <<>>
    ELSE LET sentence == K[i]
             potential_subset == K[j]
             newSentence == Sentence(sentence.cells \ potential_subset.cells,
                                     sentence.count)
         IN (IF sentence = potential_subset THEN <<>>
             ELSE IF /\ potential_subset.cells \subseteq sentence.cells
                     /\ Cardinality(newSentence.cells) > 0
                     /\ ~InKnowledge(newSentence, K)
             THEN <<newSentence>>
             ELSE <<>>) \o InferFrom_KeepCount(K, i, j + 1)

\* lines 291-306: the inner loop, for the sentence K[i], from index j on
RECURSIVE InferFrom(_, _, _)
InferFrom(K, i, j) ==
    IF j > Len(K) THEN <<>>
    ELSE LET sentence == K[i]
             potential_subset == K[j]
             newSentence == Sentence(sentence.cells \ potential_subset.cells,
                                     sentence.count - potential_subset.count)
         IN (IF sentence = potential_subset THEN <<>>
             ELSE IF /\ potential_subset.cells \subseteq sentence.cells
                     /\ Cardinality(newSentence.cells) > 0
                     /\ ~InKnowledge(newSentence, K)
             THEN <<newSentence>>
             ELSE <<>>) \o InferFrom(K, i, j + 1)

\* variant: a sentence is compared only with the sentences after it in the list
RECURSIVE newSentences_LaterOnly(_, _)
newSentences_LaterOnly(K, i) ==
    IF i > Len(K) THEN <<>>
    ELSE InferFrom(K, i, i + 1) \o newSentences_LaterOnly(K, i + 1)

\* lines 288-306: the outer loop; the list newSentences
RECURSIVE newSentences(_, _)
newSentences(K, i) ==
    IF i > Len(K) THEN <<>>
    ELSE InferFrom(K, i, 1) \o newSentences(K, i + 1)

\* lines 268-312: one iteration of the while loop
Pass(st) ==
    LET st1 == PassMark(st)
    IN [st1 EXCEPT !.knowledge = @ \o newSentences(@, 1)]

\* variant: queuing a new sentence does not set newInferences
newInferences_IgnoreNewSentences(st) == PassMarked(st)

\* variant: newInferences is set for every subset pair, queued or not
newInferences_FlagOnSubset(st) ==
    \/ PassMarked(st)
    \/ \E i, j \in DOMAIN PassMark(st).knowledge :
          /\ PassMark(st).knowledge[i] # PassMark(st).knowledge[j]
          /\ PassMark(st).knowledge[j].cells \subseteq PassMark(st).knowledge[i].cells

\* the value of newInferences at the end of the iteration
newInferences(st) ==
    \/ PassMarked(st)
    \/ Len(newSentences(PassMark(st).knowledge, 1)) > 0

\* ------------------------------------------------------------ the engine
Here == Engine(mines, safes, knowledge)

\* MinesweeperAI.__init__ on a board the game has laid out
Init ==
    /\ height \in 1 .. BoardHeight
    /\ width \in 1 .. BoardWidth
    /\ board \in {b \in SUBSET AllCells(height, width) : Cardinality(b) <= MaxMines}
    /\ moves_made = {}
    /\ mines = {}
    /\ safes = {}
    /\ knowledge = <<>>
    /\ pc = "idle"
    /\ op = "init"
    /\ result = None
    /\ obs = NoObs
    /\ revealed = {}
    /\ calls = 0

\* add_knowledge(cell, count) up to the while loop
add_knowledge(cell, count) ==
    /\ pc = "idle"
    /\ calls < MaxCalls
    /\ LET acc == NewSentence(Here, height, width, cell, count)
           st == Integrate(Here, height, width, cell, count)
       IN /\ moves_made' = moves_made \cup {cell}
          /\ mines' = st.mines
          /\ safes' = st.safes
          /\ knowledge' = st.knowledge
          /\ obs' = [cell |-> cell, count |-> count,
                     neighbors |-> acc.neighbors, new_count |-> acc.count,
                     derived |-> {}, passes |-> 0]
    /\ revealed' = revealed \cup {cell}
    /\ pc' = "loop"
    /\ op' = "add_knowledge"
    /\ result' = None
    /\ calls' = calls + 1
    /\ UNCHANGED <<height, width, board>>

\* the driver reveals a cell that is no mine and reports its true count
Reveal ==
    \E cell \in AllCells(height, width) \ board :
        add_knowledge(cell, nearby_mines(board, height, width, cell))

\* one iteration of `while newInferences`
InferencePass ==
    /\ pc = "loop"
    /\ LET st == Pass(Here)
       IN /\ mines' = st.mines
          /\ safes' = st.safes
          /\ knowledge' = st.knowledge
    /\ obs' = [obs EXCEPT
                  !.derived = @ \cup {newSentences(PassMark(Here).knowledge, 1)[i] :
                                  i \in DOMAIN newSentences(PassMark(Here).knowledge, 1)},
                  !.passes = @ + 1]
    /\ pc' = IF newInferences(Here) THEN "loop" ELSE "final"
    /\ UNCHANGED <<height, width, board, moves_made, op, result, revealed, calls>>

\* lines 314-316: the last mark_additional_cells and the return
Finish ==
    /\ pc = "final"
    /\ LET st == mark_additional_cells(Here)
       IN /\ mines' = st.mines
          /\ safes' = st.safes
          /\ knowledge' = st.knowledge
    /\ pc' = "idle"
    /\ result' = None
    /\ UNCHANGED <<height, width, board, moves_made, op, obs, revealed, calls>>

\* variant: the moves_made test is missing
make_safe_move_IgnoreMoves ==
    /\ pc = "idle"
    /\ calls < MaxCalls
    /\ \/ \E cell \in safes : result' = cell
       \/ safes = {} /\ result' = None
    /\ op' = "make_safe_move"
    /\ calls' = calls + 1
    /\ UNCHANGED <<height, width, board, moves_made, mines, safes, knowledge, pc, obs, revealed>>

make_safe_move ==
    /\ pc = "idle"
    /\ calls < MaxCalls
    /\ \/ \E cell \in safes : cell \notin moves_made /\ result' = cell
       \/ (\A cell \in safes : cell \in moves_made) /\ result' = None
    /\ op' = "make_safe_move"
    /\ calls' = calls + 1
    /\ UNCHANGED <<height, width, board, moves_made, mines, safes, knowledge, pc, obs, revealed>>

\* lines 343-351: the list possibleMoves, as the set of its elements
possibleMoves ==
    {cell \in AllCells(height, width) : ~(cell \in moves_made \/ cell \in mines)}

\* variant: known mines are not excluded from the candidates
make_random_move_IgnoreMines ==
    /\ pc = "idle"
    /\ calls < MaxCalls
    /\ \/ /\ AllCells(height, width) \subseteq moves_made
          /\ result' = None
          /\ moves_made' = moves_made
       \/ \E moveMade \in AllCells(height, width) \ moves_made :
             /\ moves_made' = moves_made \cup {moveMade}
             /\ result' = moveMade
    /\ op' = "make_random_move"
    /\ calls' = calls + 1
    /\ UNCHANGED <<height, width, board, mines, safes, knowledge, pc, obs, revealed>>

make_random_move ==
    /\ pc = "idle"
    /\ calls < MaxCalls
    /\ \/ /\ Cardinality(possibleMoves) = 0
          /\ result' = None
          /\ moves_made' = moves_made
       \/ \E moveMade \in possibleMoves :
             /\ moves_made' = moves_made \cup {moveMade}
             /\ result' = moveMade
    /\ op' = "make_random_move"
    /\ calls' = calls + 1
    /\ UNCHANGED <<height, width, board, mines, safes, knowledge, pc, obs, revealed>>

Next ==
    \/ Reveal
    \/ InferencePass
    \/ Finish
    \/ make_safe_move
    \/ make_random_move

Spec == Init /\ [][Next]_vars

\* ---------------------------------------------------- test_minesweeper_ai
\* lines 365-377: a 4x4 game with one random mine and a mine put at (0,0),
\* an engine told of that mine and given one sentence by hand
ScenarioInit ==
    /\ height = ScenarioHeight
    /\ width = ScenarioWidth
    /\ \E m \in AllCells(ScenarioHeight, ScenarioWidth) : board = {m} \cup {known_mine}
    /\ moves_made = {}
    /\ LET st == mark_mine(Engine({}, {}, <<>>), known_mine)
       IN /\ mines = st.mines
          /\ safes = st.safes
          /\ knowledge = Append(st.knowledge, ScenarioSentence)
    /\ pc = "idle"
    /\ op = "init"
    /\ result = None
    /\ obs = NoObs
    /\ revealed = {}
    /\ calls = 0

\* line 380: ai.add_knowledge((1, 1), 1)
ScenarioCall ==
    /\ calls = 0
    /\ add_knowledge(ScenarioCell, ScenarioCount)

\* after the test's call the engine is driven on as in a game
ScenarioReveal == calls > 0 /\ calls < ScenarioCalls /\ Reveal

ScenarioSafeMove == calls > 0 /\ calls < ScenarioCalls /\ make_safe_move

ScenarioRandomMove == calls > 0 /\ calls < ScenarioCalls /\ make_random_move

ScenarioNext ==
    \/ ScenarioCall
    \/ InferencePass
    \/ Finish
    \/ ScenarioReveal
    \/ ScenarioSafeMove
    \/ ScenarioRandomMove

ScenarioSpec == ScenarioInit /\ [][ScenarioNext]_vars

\* ------------------------------------------- marking called from outside
\* MinesweeperAI.mark_mine(cell) called by the owner of the engine, for any
\* cell of the board whether or not the ground truth agrees; obs keeps the
\* argument
MarkMine(cell) ==
    /\ pc = "idle"
    /\ calls < MarkCalls
    /\ LET st == mark_mine(Here, cell)
       IN /\ mines' = st.mines
          /\ safes' = st.safes
          /\ knowledge' = st.knowledge
    /\ obs' = [NoObs EXCEPT !.cell = cell]
    /\ op' = "mark_mine"
    /\ result' = None
    /\ calls' = calls + 1
    /\ UNCHANGED <<height, width, board, moves_made, pc, revealed>>

\* MinesweeperAI.mark_safe(cell) called by the owner of the engine
MarkSafe(cell) ==
    /\ pc = "idle"
    /\ calls < MarkCalls
    /\ LET st == mark_safe(Here, cell)
       IN /\ mines' = st.mines
          /\ safes' = st.safes
          /\ knowledge' = st.knowledge
    /\ obs' = [NoObs EXCEPT !.cell = cell]
    /\ op' = "mark_safe"
    /\ result' = None
    /\ calls' = calls + 1
    /\ UNCHANGED <<height, width, board, moves_made, pc, revealed>>

MarkMineCall == \E cell \in AllCells(height, width) : MarkMine(cell)

MarkSafeCall == \E cell \in AllCells(height, width) : MarkSafe(cell)

\* the engine driven as in Spec, with marking calls in between
MarkReveal == calls < MarkCalls /\ Reveal

\* the while loop, followed for at most MarkPasses iterations
MarkInferencePass == obs.passes < MarkPasses /\ InferencePass

MarkSafeMove == calls < MarkCalls /\ make_safe_move

MarkRandomMove == calls < MarkCalls /\ make_random_move

MarkNext ==
    \/ MarkReveal
    \/ MarkInferencePass
    \/ Finish
    \/ MarkSafeMove
    \/ MarkRandomMove
    \/ MarkMineCall
    \/ MarkSafeCall

MarkSpec == Init /\ [][MarkNext]_vars

\* ------------------------------------------------- one sentence on its own
\* Sentence(cells, count) built by a caller over the cells of a board, with
\* any count from -1 to the number of cells of the board; it is kept as the
\* one entry of knowledge
SentenceInit ==
    /\ height \in 1 .. BoardHeight
    /\ width \in 1 .. BoardWidth
    /\ board = {}
    /\ moves_made = {}
    /\ mines = {}
    /\ safes = {}
    /\ \E cells \in SUBSET AllCells(height, width) :
          \E count \in -1 .. height * width :
              knowledge = <<Sentence(cells, count)>>
    /\ pc = "idle"
    /\ op = "init"
    /\ result = None
    /\ obs = NoObs
    /\ revealed = {}
    /\ calls = 0

\* sentence.known_mines(): result is the returned set
KnownMines ==
    /\ result' = known_mines(knowledge[1])
    /\ op' = "known_mines"
    /\ UNCHANGED <<height, width, board, moves_made, mines, safes, knowledge,
                   pc, obs, revealed, calls>>

\* sentence.known_safes(): result is the returned set
KnownSafes ==
    /\ result' = known_safes(knowledge[1])
    /\ op' = "known_safes"
    /\ UNCHANGED <<height, width, board, moves_made, mines, safes, knowledge,
                   pc, obs, revealed, calls>>

SentenceNext ==
    \/ KnownMines
    \/ KnownSafes

SentenceSpec == SentenceInit /\ [][SentenceNext]_vars

\* --------------------------------------------- add_knowledge in any order
\* every order of the entries of a list
Reorderings(list) ==
    {[i \in DOMAIN list |-> list[p[i]]] : p \in Permutations(DOMAIN list)}

\* mark_additional_cells with the cells of its two lists marked in any order
mark_additional_cells_AnyOrder(st) ==
    UNION {{MarkSafes(MarkMines(st, qm), qs) :
                qs \in Reorderings(AdditionalSafes(st, 1))} :
           qm \in Reorderings(AdditionalMines(st, 1))}

\* lines 269-286 with the sets knownSafes and knownMines iterated in any order
PassMark_AnyOrder(st) ==
    UNION {{MarkNewMines(MarkNewSafes(st, qs), qm) :
                qm \in Reorderings(SetToSeq(knownMines(st.knowledge)))} :
           qs \in Reorderings(SetToSeq(knownSafes(st.knowledge)))}

\* the while loop run to its end from st: every state it can leave
RECURSIVE Loop_AnyOrder(_)
Loop_AnyOrder(st) ==
    UNION {LET queued == newSentences(st1.knowledge, 1)
               st2 == [st1 EXCEPT !.knowledge = @ \o queued]
           IN IF PassMarked(st) \/ Len(queued) > 0
              THEN Loop_AnyOrder(st2)
              ELSE {st2} :
           st1 \in PassMark_AnyOrder(st)}

\* the whole of add_knowledge(cell, count) from st: every state it can leave
Call_AnyOrder(st, h, w, cell, count) ==
    UNION {UNION {mark_additional_cells_AnyOrder(st2) : st2 \in Loop_AnyOrder(st1)} :
           st1 \in mark_additional_cells_AnyOrder(WithNewSentence(st, h, w, cell, count))}

\* add_knowledge(cell, count) as one step, called with the sentences of
\* knowledge in any order; obs.derived is what the loop appended as the call
\* leaves it, obs.passes
\* is not followed, obs.reordered tells that the call found the sentences in
\* another order than the calls before had left them in
add_knowledge_AnyOrder(cell, count) ==
    /\ pc = "idle"
    /\ calls < OrderCalls
    /\ \E K \in Reorderings(knowledge) :
          \E st \in Call_AnyOrder(Engine(mines, safes, K), height, width, cell, count) :
              LET acc == NewSentence(Here, height, width, cell, count)
                  first == Len(WithNewSentence(Here, height, width, cell, count).knowledge)
              IN /\ mines' = st.mines
                 /\ safes' = st.safes
                 /\ knowledge' = st.knowledge
                 /\ obs' = [cell |-> cell, count |-> count,
                            neighbors |-> acc.neighbors, new_count |-> acc.count,
                            derived |-> {st.knowledge[i] : i \in first + 1 .. Len(st.knowledge)},
                            passes |-> 0, reordered |-> K # knowledge]
    /\ moves_made' = moves_made \cup {cell}
    /\ revealed' = revealed \cup {cell}
    /\ op' = "add_knowledge"
    /\ result' = None
    /\ calls' = calls + 1
    /\ UNCHANGED <<height, width, board, pc>>

\* the driver reveals a cell that is no mine and reports its true count
OrderReveal ==
    \E cell \in AllCells(height, width) \ board :
        add_knowledge_AnyOrder(cell, nearby_mines(board, height, width, cell))

OrderNext == OrderReveal

OrderSpec == Init /\ [][OrderNext]_vars

\* ================================================================ claims

\* C1: soundness.  Under valid observations every cell in safes is no mine
\* and every cell in mines is a mine of the ground truth, and a cell
\* returned by make_safe_move is no mine.
C1_Soundness ==
    /\ \A c \in safes : ~is_mine(board, c)
    /\ \A c \in mines : is_mine(board, c)
    /\ (op = "make_safe_move" /\ result # None) => ~is_mine(board, result)

\* a safe move is handed out after subset resolution has found a mine
C1_Witness ==
    /\ op = "make_safe_move"
    /\ result # None
    /\ mines # {}
    /\ \E s \in obs.derived : s.count > 0

\* C2: monotonicity and disjointness.  No step removes a cell from safes or
\* from mines, and no reachable state has a cell in both.
C2_MonotoneDisjoint ==
    /\ [][safes \subseteq safes' /\ mines \subseteq mines']_vars
    /\ [](safes \cap mines = {})

\* both sets are populated after several observations
C2_Witness ==
    /\ pc = "idle"
    /\ Cardinality(revealed) >= 2
    /\ mines # {}
    /\ safes \ revealed # {}

\* The number of passes one call can need on an h x w board: every pass but
\* the last marks a cell (at most h*w times) or appends a sentence that was
\* not there, and a sentence that is true of the board is fixed by its
\* non-empty cell set (fewer than 2^(h*w) of them).
PassBound(h, w) == 2 ^ (h * w) + h * w

\* C3: termination.  Every add_knowledge call leaves its while loop after a
\* bounded number of passes, and every pass that is not the last one adds a
\* cell to safes or mines or appends a sentence that is not equal to any
\* sentence of the knowledge it scanned.
C3_Termination ==
    /\ [](obs.passes <= PassBound(height, width))
    /\ [][(pc = "loop" /\ pc' = "loop") =>
            \/ safes' # safes
            \/ mines' # mines
            \/ \E i \in (Len(knowledge) + 1) .. Len(knowledge') :
                  ~InKnowledge(knowledge'[i], SubSeq(knowledge', 1, Len(knowledge)))]_vars

\* a call that needed a chain of passes (derivations, then a marking) returned
C3_Witness ==
    /\ pc = "idle"
    /\ op = "add_knowledge"
    /\ obs.passes >= 3
    /\ \E s \in obs.derived : s.cells # {} /\ s.cells \subseteq mines \cup safes
    /\ Cardinality(obs.derived) >= 2

\* the knowledge one pass scanned, seen from the step that made the pass:
\* the pass only appends, so it is the old-length prefix of the new list
Scanned(K, Kafter) == SubSeq(Kafter, 1, Len(K))

\* the sentences one pass appended
Appended(K, Kafter) == {Kafter[i] : i \in (Len(K) + 1) .. Len(Kafter)}

\* every candidate of subset resolution over the list K
Candidates(K) ==
    {Sentence(K[i].cells \ K[j].cells, K[i].count - K[j].count) :
        <<i, j>> \in {p \in (DOMAIN K) \X (DOMAIN K) :
                        /\ K[p[1]] # K[p[2]]
                        /\ K[p[2]].cells \subseteq K[p[1]].cells}}

\* C4: subset resolution.  One pass appends exactly the candidates
\* (A.cells - B.cells, A.count - B.count), for unequal A, B in knowledge with
\* B.cells a subset of A.cells, that have a cell and equal no sentence of the
\* scanned knowledge; with A = ({a,b,c}, 2) and B = ({a,b}, 1) the pass yields
\* ({c}, 1), and a cell c with ({c}, 1) derived is in mines on return.
C4_SubsetResolution ==
    /\ [][pc = "loop" =>
            LET K == Scanned(knowledge, knowledge')
            IN /\ Len(knowledge') >= Len(knowledge)
               /\ Appended(knowledge, knowledge') =
                     {C \in Candidates(K) : C.cells # {} /\ \A k \in DOMAIN K : K[k] # C}
               /\ \A i, j \in DOMAIN K :
                     (/\ Cardinality(K[i].cells) = 3 /\ K[i].count = 2
                      /\ Cardinality(K[j].cells) = 2 /\ K[j].count = 1
                      /\ K[j].cells \subseteq K[i].cells)
                     => \E k \in DOMAIN knowledge' :
                           knowledge'[k] = Sentence(K[i].cells \ K[j].cells, 1)]_vars
    /\ [](pc = "idle" =>
            \A s \in obs.derived :
                (Cardinality(s.cells) = 1 /\ s.count = 1) => s.cells \subseteq mines)

\* the pass has just derived ({c}, 1) from A = ({a,b,c}, 2) and B = ({a,b}, 1)
C4_Witness ==
    /\ pc = "loop"
    /\ \E i, j \in DOMAIN knowledge :
          /\ Cardinality(knowledge[i].cells) = 3 /\ knowledge[i].count = 2
          /\ Cardinality(knowledge[j].cells) = 2 /\ knowledge[j].count = 1
          /\ knowledge[j].cells \subseteq knowledge[i].cells
          /\ Sentence(knowledge[i].cells \ knowledge[j].cells, 1) \in obs.derived

\* no sentence with a cell has a direct conclusion, and the list is closed
\* under subset resolution
FixedPoint(K) ==
    /\ \A i \in DOMAIN K :
          K[i].cells # {} => (K[i].count # 0 /\ K[i].count # Cardinality(K[i].cells))
    /\ \A i, j \in DOMAIN K :
          (/\ K[i] # K[j]
           /\ K[j].cells \subseteq K[i].cells
           /\ K[i].cells \ K[j].cells # {})
          => \E k \in DOMAIN K :
                K[k] = Sentence(K[i].cells \ K[j].cells, K[i].count - K[j].count)

\* C5: fixed point.  When add_knowledge has returned, one more pass of the
\* loop marks nothing and appends nothing, mark_additional_cells changes
\* nothing (also the one the call itself ends with), and knowledge has no
\* direct conclusion left and is closed under subset resolution.
C5_FixedPoint ==
    /\ [](pc = "idle" =>
            /\ Pass(Here) = Here
            /\ ~newInferences(Here)
            /\ mark_additional_cells(Here) = Here
            /\ FixedPoint(knowledge))
    /\ [][pc = "final" => UNCHANGED <<safes, mines, knowledge>>]_vars

\* a call that derived sentences has returned and left nested sentences behind
C5_Witness ==
    /\ pc = "idle"
    /\ op = "add_knowledge"
    /\ obs.derived # {}
    /\ \E i, j \in DOMAIN knowledge :
          /\ knowledge[j].cells # {}
          /\ knowledge[j].cells \subseteq knowledge[i].cells
          /\ knowledge[j].cells # knowledge[i].cells

\* C6: make_safe_move returns a cell of safes that is not in moves_made when
\* there is one and None exactly when there is none, and changes none of
\* moves_made, safes, mines, knowledge.
C6_SafeMove ==
    /\ [](op = "make_safe_move" =>
            /\ (result = None) <=> (safes \ moves_made = {})
            /\ (result # None) => (result \in safes /\ result \notin moves_made))
    /\ [][(op' = "make_safe_move" /\ calls' = calls + 1) =>
            UNCHANGED <<moves_made, safes, mines, knowledge>>]_vars

\* a safe move was returned while other safe cells had already been played
C6_Witness ==
    /\ op = "make_safe_move"
    /\ result # None
    /\ safes \cap moves_made # {}

\* C7: make_random_move returns a cell that was in bounds, not in moves_made
\* and not in mines, any such cell being possible; it returns None exactly
\* when there is no such cell; it adds the returned cell, and nothing else,
\* to moves_made and leaves safes, mines and knowledge alone.
C7_RandomMove ==
    /\ [][(op' = "make_random_move" /\ calls' = calls + 1) =>
            LET free == {c \in AllCells(height, width) :
                            c \notin moves_made /\ c \notin mines}
            IN /\ (result' = None) <=> (free = {})
               /\ (result' # None) =>
                     (result' \in free /\ moves_made' = moves_made \cup {result'})
               /\ (result' = None) => (moves_made' = moves_made)
               /\ UNCHANGED <<safes, mines, knowledge>>]_vars
    /\ []((pc = "idle" /\ calls < MaxCalls) =>
            \A c \in AllCells(height, width) :
                (c \notin moves_made /\ c \notin mines)
                => ENABLED (make_random_move /\ result' = c))

\* a random move was returned while a mine was known
C7_Witness ==
    /\ op = "make_random_move"
    /\ result # None
    /\ mines # {}
    /\ revealed # {}

\* C8: the end-to-end scenario.  add_knowledge((1,1), 1) on the seeded 4x4
\* engine puts (1,1) in safes and moves_made, builds and appends the
\* sentence over the seven neighbours of (1,1) other than (0,0) with count
\* 0, and returns with mines = {(0,0)}, safes and mines disjoint and no
\* negative count.
C8_Scenario ==
    (calls = 1 /\ op = "add_knowledge") =>
        /\ obs.cell = <<1, 1>> /\ obs.count = 1
        /\ <<1, 1>> \in safes
        /\ <<1, 1>> \in moves_made
        /\ obs.neighbors = {<<0, 1>>, <<0, 2>>, <<1, 0>>, <<1, 2>>,
                            <<2, 0>>, <<2, 1>>, <<2, 2>>}
        /\ obs.new_count = 0
        /\ Len(knowledge) >= 2
        /\ (obs.passes = 0 => Len(knowledge) = 2)
        /\ knowledge[2].cells \subseteq obs.neighbors
        /\ knowledge[2].count = 0
        /\ (pc = "idle" =>
              /\ mines = {<<0, 0>>}
              /\ safes \cap mines = {}
              /\ \A i \in DOMAIN knowledge : knowledge[i].count >= 0)

\* the scenario's call has returned
C8_Witness ==
    /\ calls = 1
    /\ op = "add_knowledge"
    /\ pc = "idle"
    /\ obs.cell = <<1, 1>>
    /\ Cardinality(safes) = 8

\* a and b are different cells within one row and one column of each other
Adjacent(a, b) ==
    /\ a # b
    /\ a[1] - b[1] \in -1 .. 1
    /\ a[2] - b[2] \in -1 .. 1

\* C9: observation integration.  add_knowledge(cell, count) adds cell to
\* moves_made and safes; the sentence it builds is over the in-bounds
\* neighbours of cell that are neither in safes nor in mines, with the count
\* less the number of neighbours in mines; it is appended iff it has a cell.
C9_Integration ==
    [][(pc = "idle" /\ pc' = "loop") =>
         LET cell == obs'.cell
             adj == {n \in AllCells(height, width) : Adjacent(n, cell)}
         IN /\ moves_made' = moves_made \cup {cell}
            /\ cell \in safes'
            /\ obs'.neighbors = {n \in adj : n \notin safes /\ n \notin mines}
            /\ obs'.new_count = obs'.count - Cardinality(adj \cap mines)
            /\ (obs'.neighbors # {}) => (Len(knowledge') = Len(knowledge) + 1)
            /\ (obs'.neighbors = {}) => (Len(knowledge') = Len(knowledge))]_vars

\* a sentence was appended for a cell with a known mine and a known safe
\* cell among its neighbours
C9_Witness ==
    /\ pc = "loop"
    /\ obs.passes = 0
    /\ obs.neighbors # {}
    /\ obs.new_count < obs.count
    /\ \E n \in safes \ {obs.cell} : Adjacent(n, obs.cell) /\ n \notin obs.neighbors

\* C10 as stated: whenever the new sentence has no cell, the count the
\* caller passed is zero (here for runs of add_knowledge calls on distinct
\* cells only).
C10_Original ==
    (op = "add_knowledge" /\ calls = Cardinality(revealed) /\ obs.neighbors = {})
        => obs.count = 0

\* C10, amended: whenever the new sentence has no cell, the working count
\* left after the decrements for known mines is zero; the count the caller
\* passed is the number of neighbours of the cell that are in mines.
C10_Amended ==
    (op = "add_knowledge" /\ obs.neighbors = {}) =>
        /\ obs.new_count = 0
        /\ obs.count = Cardinality({n \in mines : Adjacent(n, obs.cell)})

\* a sentence was dropped for an observation with a positive count
C10_Witness ==
    /\ op = "add_knowledge"
    /\ calls = Cardinality(revealed)
    /\ obs.neighbors = {}
    /\ obs.count > 0

\* the sentences of K after one marking of cell that lowers the count of a
\* sentence holding cell by dec
Marked(K, cell, dec) ==
    [i \in DOMAIN K |->
        IF cell \in K[i].cells
        THEN [cells |-> K[i].cells \ {cell}, count |-> K[i].count - dec]
        ELSE K[i]]

\* C11: engine-level marking.  A call of mark_mine(cell) adds cell to mines
\* and, in every sentence holding cell, removes it and lowers count by one;
\* a call of mark_safe(cell) adds cell to safes and removes it from every
\* sentence holding it with count as it was; sentences without cell, the
\* other certainty set, moves_made and the number of sentences stay, and
\* afterwards no sentence holds cell.
C11_Marking ==
    [][/\ (op' = "mark_mine" /\ calls' = calls + 1) =>
            /\ mines' = mines \cup {obs'.cell}
            /\ safes' = safes
            /\ moves_made' = moves_made
            /\ Len(knowledge') = Len(knowledge)
            /\ knowledge' = Marked(knowledge, obs'.cell, 1)
            /\ \A i \in DOMAIN knowledge' : obs'.cell \notin knowledge'[i].cells
       /\ (op' = "mark_safe" /\ calls' = calls + 1) =>
            /\ safes' = safes \cup {obs'.cell}
            /\ mines' = mines
            /\ moves_made' = moves_made
            /\ Len(knowledge') = Len(knowledge)
            /\ knowledge' = Marked(knowledge, obs'.cell, 0)
            /\ \A i \in DOMAIN knowledge' : obs'.cell \notin knowledge'[i].cells
      ]_vars

\* mark_mine has just taken a cell out of a sentence that is still not spent,
\* while another sentence never held the cell
C11_Witness ==
    /\ op = "mark_mine"
    /\ obs.cell \in mines
    /\ Len(knowledge) >= 2
    /\ \E i \in DOMAIN knowledge :
          /\ knowledge[i].cells # {}
          /\ knowledge[i].count = 0
          /\ \E c \in knowledge[i].cells : Adjacent(c, obs.cell)
    /\ \E j \in DOMAIN knowledge : knowledge[j].count > 0

\* C12: marking is idempotent.  Sentence.mark_mine and Sentence.mark_safe
\* leave a sentence that does not hold the cell as it is, so marking twice
\* gives what marking once gives; and a mark_mine or mark_safe call for a
\* cell the engine already marked that way leaves safes, mines, knowledge and
\* moves_made as they are.
C12_Idempotent ==
    /\ [](\A cell \in AllCells(height, width) :
            /\ \A i \in DOMAIN knowledge :
                  LET s == knowledge[i]
                      m == Sentence_mark_mine(s, cell)
                      f == Sentence_mark_safe(s, cell)
                  IN /\ cell \notin s.cells =>
                            /\ m.cells = s.cells /\ m.count = s.count
                            /\ f.cells = s.cells /\ f.count = s.count
                     /\ Sentence_mark_mine(m, cell) = m
                     /\ Sentence_mark_safe(f, cell) = f
            /\ mark_mine(mark_mine(Here, cell), cell) = mark_mine(Here, cell)
            /\ mark_safe(mark_safe(Here, cell), cell) = mark_safe(Here, cell))
    /\ [][/\ (op' = "mark_mine" /\ calls' = calls + 1 /\ obs'.cell \in mines) =>
                UNCHANGED <<mines, safes, knowledge, moves_made>>
          /\ (op' = "mark_safe" /\ calls' = calls + 1 /\ obs'.cell \in safes) =>
                UNCHANGED <<mines, safes, knowledge, moves_made>>
         ]_vars

\* mark_safe was called for a cell that add_knowledge had marked safe before,
\* with a sentence about other cells in knowledge
C12_Witness ==
    /\ op = "mark_safe"
    /\ obs.cell \in revealed
    /\ \E i \in DOMAIN knowledge :
          knowledge[i].cells # {} /\ knowledge[i].count > 0

\* C13: sentence consistency.  Under valid observations every sentence in
\* knowledge, whether observed, derived by subset resolution or simplified
\* by marking, has 0 <= count <= number of its cells.
C13_Consistent ==
    \A i \in DOMAIN knowledge :
        /\ 0 <= knowledge[i].count
        /\ knowledge[i].count <= Cardinality(knowledge[i].cells)

\* knowledge holds a sentence derived by subset resolution that still has
\* a mine among its cells, and a sentence whose cells are not all mines
C13_Witness ==
    /\ \E i \in DOMAIN knowledge :
          /\ knowledge[i] \in obs.derived
          /\ knowledge[i].cells # {}
          /\ knowledge[i].count > 0
    /\ \E j \in DOMAIN knowledge :
          /\ knowledge[j].count > 0
          /\ knowledge[j].count < Cardinality(knowledge[j].cells)

\* C14: single-sentence conclusions.  known_safes() returns the cells of the
\* sentence when count is 0 and nothing otherwise; known_mines() returns the
\* cells when count equals their number and nothing otherwise, so the
\* sentence with no cells and count 0 reports no mines; neither call changes
\* the sentence.
C14_Conclusions ==
    /\ [](op = "known_safes" =>
            \A c \in AllCells(height, width) :
                c \in result <=> (c \in knowledge[1].cells /\ knowledge[1].count = 0))
    /\ [](op = "known_mines" =>
            /\ \A c \in AllCells(height, width) :
                  c \in result <=>
                      /\ c \in knowledge[1].cells
                      /\ knowledge[1].count = Cardinality(knowledge[1].cells)
            /\ (knowledge[1].cells = {} /\ knowledge[1].count = 0) => result = {})
    /\ [][op' \in {"known_safes", "known_mines"} => knowledge' = knowledge]_vars

\* known_mines() has answered for the sentence with no cells and count 0
C14_Witness ==
    /\ op = "known_mines"
    /\ knowledge[1].cells = {}
    /\ knowledge[1].count = 0
    /\ result = {}

\* C15: no sentence in knowledge holds a cell that is in safes or in mines,
\* in every state reached from a fresh engine through add_knowledge,
\* mark_mine, mark_safe, make_safe_move and make_random_move: for the
\* sentence built from an observation, for the sentences derived by subset
\* resolution and after every marking.
C15_NoMarkedCell ==
    \A i \in DOMAIN knowledge : knowledge[i].cells \cap (safes \cup mines) = {}

\* after a mark_mine call from outside for a cell that is no mine, an
\* observation has been integrated, subset resolution has derived a sentence,
\* and knowledge holds a sentence with unknown cells
C15_Witness ==
    /\ op = "add_knowledge"
    /\ pc = "idle"
    /\ obs.derived # {}
    /\ \E c \in mines : ~is_mine(board, c)
    /\ \E i \in DOMAIN knowledge : Cardinality(knowledge[i].cells) >= 2

\* the while loop run to its end from st with knowledge and every set
\* iterated in the one order the operators Pass and newInferences use
RECURSIVE RunLoop(_)
RunLoop(st) == IF newInferences(st) THEN RunLoop(Pass(st)) ELSE Pass(st)

\* the state add_knowledge(cell, count) leaves from st in that one order
RunCall(st, h, w, cell, count) ==
    mark_additional_cells(RunLoop(Integrate(st, h, w, cell, count)))

\* the distinct sentences of a list
Distinct(K) == {K[i] : i \in DOMAIN K}

\* C16: order independence.  From the same safes, mines, moves_made and the
\* same collection of sentences, with the same observation, add_knowledge
\* leaves the same safes, the same mines and the same set of distinct
\* sentences whatever the order of the sentences in knowledge and whatever
\* the order in which the cells found in one pass are marked: every way the
\* call can go ends where the run in one fixed order ends.
C16_OrderIndependent ==
    [][(op' = "add_knowledge" /\ calls' = calls + 1) =>
          LET ref == RunCall(Here, height, width, obs'.cell, obs'.count)
          IN /\ safes' = ref.safes
             /\ mines' = ref.mines
             /\ Distinct(knowledge') = Distinct(ref.knowledge)
             /\ moves_made' = moves_made \cup {obs'.cell}
      ]_vars

\* a call that found different sentences in knowledge, in another order than
\* they were left in, has derived a sentence by subset resolution and a mine
\* is marked
C16_Witness ==
    /\ op = "add_knowledge"
    /\ obs.reordered
    /\ obs.derived # {}
    /\ mines # {}
    /\ Len(knowledge) >= 3

====
